---- MODULE Spec2Model ----
(***************************************************************************)
(* The incremental harvest of new_drug_approvals_scraper/scraper.py:       *)
(* scrape_new_drug_approvals_data walks the archive pages from the current *)
(* year down to 2002, stops at the most recent record it already knows,    *)
(* labels every new record twice through the classification oracle and     *)
(* appends it to new_drug_approvals.csv (or to the table it returns).      *)
(***************************************************************************)
EXTENDS Integers, Sequences, FiniteSets, TLC

\* ------------------------------------------------------------------ bounds
NumYears == 2      \* archive years the harvest walks (current year .. 2002)
MaxBlocks == 2     \* record blocks on the archive, all pages together
MaxRuns == 2       \* calls of scrape_new_drug_approvals_data in one behaviour
MaxLen == 5        \* characters of a title markup string

\* --------------------------------------------------------------- constants
END_YEAR == 2002

utcnow_year == END_YEAR + NumYears - 1
Years == END_YEAR .. utcnow_year

None == "None"     \* most_recent_drug = None
NaT == 0           \* most_recent_date = None

Names == {"Alpha", "Beta"}
Days == {1, 2}

\* ------------------------------------------------------------------- dates
\* The text after "Date of Approval:" is <<month, day, year>> ("January 2, 2003");
\* <<>> stands for a block with no such label.  A datetime / Timestamp is the
\* number yyyymmdd; the CSV holds the ISO form <<yyyy, mm, dd>>.
NoLabel == <<>>

strptime(value) == value[3] * 10000 + value[1] * 100 + value[2]

isoformat(ts) == <<ts \div 10000, (ts \div 100) % 100, ts % 100>>

to_datetime(iso) == iso[1] * 10000 + iso[2] * 100 + iso[3]

\* ------------------------------------------------------------ the archive
\* A record block of the page of year y: the drug name of its title and the
\* text of its "Date of Approval:" label.
Blocks(y) ==
    [drug_name : Names, date : {<<1, d, y>> : d \in Days}]
    \cup {[drug_name |-> "Beta", date |-> NoLabel]}

Tagged == UNION {{<<y, b>> : b \in Blocks(y)} : y \in Years}

SeqsUpTo(S, n) == UNION {[1 .. k -> S] : k \in 0 .. n}

PageOf(s, y) ==
    LET pick(t) == t[1] = y
        sel == SelectSeq(s, pick)
    IN  [i \in 1 .. Len(sel) |-> sel[i][2]]

\* Every (drug_name, approval date) pair occurs once on the archive.
Archives ==
    {[y \in Years |-> PageOf(s, y)] :
        s \in {t \in SeqsUpTo(Tagged, MaxBlocks) :
                 \A i, j \in 1 .. Len(t) : t[i] = t[j] => i = j}}

reversed(s) == [i \in 1 .. Len(s) |-> s[Len(s) + 1 - i]]

\* ------------------------------------------------------------- the oracle
DRUG_CATEGORIES ==
    {"Antibiotics", "Antivirals", "Antifungals", "Antiparasitics", "Antineoplastics",
     "Anti-inflammatories", "Analgesics", "Antipsychotics", "Antidepressants",
     "Antidiabetics", "Cardiovascular", "Respiratory", "Gastrointestinal",
     "Neurological", "Dermatological", "Ophthalmological", "Hormonal",
     "Immunological", "Anesthetics", "Vaccines", "Nutritional Supplements"}

DISEASE_CATEGORIES ==
    {"Infectious Diseases", "Autoimmune Diseases", "Cardiovascular Diseases",
     "Neurological Disorders", "Cancers", "Respiratory Diseases",
     "Gastrointestinal Diseases", "Endocrine Disorders", "Genetic Disorders",
     "Mental Health Disorders", "Musculoskeletal Disorders", "Hematological Disorders",
     "Dermatological Conditions", "Renal Disorders", "Ophthalmological Disorders",
     "Hepatic Disorders", "Reproductive System Disorders", "Nutritional Disorders",
     "Developmental Disorders", "Traumatic Injuries"}

\* What chat.invoke can come back with: no reply at all, a reply the output
\* parser rejects, or a reply whose item_category is some string.
\* The model is built with temperature 0.0 (utils.py:122-132): the same prompt
\* gets the same item_category whenever it is answered at all.  One drug gets a
\* listed category, the other a string that is not one.
DrugItems(drug_name) ==
    IF drug_name = "Alpha" THEN {"Antibiotics"} ELSE {"Antibiotics, Vaccines"}
DiseaseItems(drug_name) == {"Other"}

Replies(items) ==
    {[status |-> "unreachable", item_category |-> ""],
     [status |-> "unparsable", item_category |-> ""]}
    \cup {[status |-> "parsed", item_category |-> s] : s \in items}

\* (a classification that answers "Other" when the oracle gives no usable reply)
make_classification_default(response) ==
    [raised |-> "",
     value |-> IF response.status = "parsed" THEN response.item_category ELSE "Other"]

\* classification.py:97-99: chat.invoke, output_parser.parse, ['item_category'];
\* nothing is caught, nothing is checked against the categories.
make_classification(response) ==
    CASE response.status = "unreachable" ->
            [raised |-> "APIConnectionError", value |-> ""]
      [] response.status = "unparsable" ->
            [raised |-> "OutputParserException", value |-> ""]
      [] OTHER ->
            [raised |-> "", value |-> response.item_category]

\* ------------------------------------------------------------------ config
Profiles == {"local", "aws", "gcp"}
EnvValues == Profiles \cup {"staging"}

get_config(env) ==
    CASE env = "local" -> "LocalConfig"
      [] env = "aws" -> "AWSConfig"
      [] env = "gcp" -> "GCPConfig"
      [] OTHER -> "LocalConfig"

\* ------------------------------------------------------- the title markup
\* str(drug_tag) is a string of characters; "&lpar;" stands for the HTML
\* entity of that name, one character of the alphabet here.
Chars == {"(", ")", "a", " ", "&lpar;"}
Tags == SeqsUpTo(Chars, MaxLen)

\* html.unescape: the entity becomes the character it names.
unescape(t) == [i \in 1 .. Len(t) |-> IF t[i] = "&lpar;" THEN "(" ELSE t[i]]

\* The first index >= p of t that holds c, 0 when there is none.
RECURSIVE find(_, _, _)
find(t, c, p) ==
    IF p > Len(t) THEN 0 ELSE IF t[p] = c THEN p ELSE find(t, c, p + 1)

\* (?:[^\(\)]|\([^\)]*\))* followed by \): from p on, a character that is no
\* parenthesis is taken alone, an opening one is taken with everything up to
\* the next closing one, and the closing one that comes next ends the group.
\* The index of that closing parenthesis, 0 when the pattern fails from here.
RECURSIVE body_end(_, _)
body_end(t, p) ==
    IF p > Len(t) THEN 0
    ELSE IF t[p] = ")" THEN p
    ELSE IF t[p] = "(" THEN
             IF find(t, ")", p + 1) = 0 THEN 0
             ELSE body_end(t, find(t, ")", p + 1) + 1)
    ELSE body_end(t, p + 1)

\* re.search: the leftmost position the pattern matches from, and group(1).
re_search(t) ==
    LET starts == {k \in 1 .. Len(t) : t[k] = "(" /\ body_end(t, k + 1) # 0}
    IN  IF starts = {} THEN [matched |-> FALSE, group1 |-> <<>>]
        ELSE LET k == CHOOSE m \in starts : \A n \in starts : m <= n
             IN  [matched |-> TRUE,
                  group1 |-> SubSeq(t, k + 1, body_end(t, k + 1) - 1)]

\* (a strip that leaves the text as it is)
strip_nothing(text) == text

\* str.strip(): leading and trailing blanks go.
RECURSIVE strip(_)
strip(text) ==
    IF text = <<>> THEN <<>>
    ELSE IF Head(text) = " " THEN strip(Tail(text))
    ELSE IF text[Len(text)] = " " THEN strip(SubSeq(text, 1, Len(text) - 1))
    ELSE text

NoName == [is_none |-> TRUE, text |-> <<>>]

\* utils.py:64-71, 77: the generic name extract_generic_and_admin returns.
extract_generic(tag) ==
    LET match == re_search(unescape(tag))
    IN  IF match.matched /\ strip(match.group1) # <<>>
           THEN [is_none |-> FALSE, text |-> strip(match.group1)]
           ELSE NoName

VARIABLES
    pages,             \* the archive: year -> blocks in page order
    ENV,               \* the ENV environment variable of the process
    CONFIG,            \* the profile object config.py builds at import
    csv,               \* new_drug_approvals.csv: [exists, rows]
    pc,                \* "idle", "while", "for", "done", "raised"
    return_df,         \* argument
    args,              \* the caller's (most_recent_drug, most_recent_date)
    openai_api_key,    \* TRUE when a key was found (argument or environment)
    file_exists,
    most_recent_drug,
    most_recent_date,
    current_year,
    has_to_stop,
    all_drugs,         \* what is left of reversed(all_drugs)
    df_to_return,
    runs,              \* calls so far
    prev,              \* "updated": the call before updated the file (no
                       \* boundary passed) and returned; else "other"
    csv_before,        \* the file when this call started
    io,                \* what this call did with the file: "read", "write"
    fetched,           \* the years this call asked requests.get for, in order
    failed,            \* a response of this call came with a failure status
    oracle_calls,      \* chat.invoke calls of this call
    seen,              \* the blocks this call took from the pages, in order
    oracle_down,       \* a chat.invoke of this call failed or was not parsable
    exc,               \* the exception that ended this call
    drug_tag,          \* the title markup handed to extract_generic_and_admin
    extracted,         \* TRUE once it has returned
    generic_name       \* the generic name it returned

vars == <<pages, ENV, CONFIG, csv, pc, return_df, args, openai_api_key, file_exists,
          most_recent_drug, most_recent_date, current_year, has_to_stop, all_drugs,
          df_to_return, runs, prev, csv_before, io, fetched, failed, oracle_calls,
          seen, oracle_down, exc, drug_tag, extracted, generic_name>>

title == <<drug_tag, extracted, generic_name>>
source == <<pages, ENV, CONFIG, title>>
locals == <<return_df, args, openai_api_key, file_exists, most_recent_drug,
            most_recent_date>>
history == <<runs, prev, csv_before>>

NoFile == [exists |-> FALSE, rows |-> <<>>]

\* No call has been made yet.
InitCall ==
    /\ CONFIG = get_config(ENV)
    /\ pc = "idle"
    /\ return_df = FALSE
    /\ args = <<None, NaT>>
    /\ openai_api_key = FALSE
    /\ file_exists = FALSE
    /\ most_recent_drug = None
    /\ most_recent_date = NaT
    /\ current_year = utcnow_year
    /\ has_to_stop = FALSE
    /\ all_drugs = <<>>
    /\ df_to_return = <<>>
    /\ prev = "other"
    /\ io = {}
    /\ fetched = <<>>
    /\ failed = FALSE
    /\ oracle_calls = 0
    /\ seen = <<>>
    /\ oracle_down = FALSE
    /\ exc = ""

\* No call has been made yet and there is no file.
InitRun ==
    /\ InitCall
    /\ runs = 0
    /\ csv = NoFile
    /\ csv_before = NoFile

\* No title markup is looked at.
NoTitle == drug_tag = <<>> /\ extracted = FALSE /\ generic_name = NoName

\* ENV is not set: os.getenv("ENV", "local") (config.py:7).
Init ==
    /\ pages \in Archives
    /\ ENV = "local"
    /\ InitRun
    /\ NoTitle

\* ENV is set to anything; the archive holds at most one block.
InitEnv ==
    /\ pages \in {a \in Archives : \A y, z \in Years :
                      Len(a[y]) <= 1 /\ (y # z => Len(a[y]) + Len(a[z]) <= 1)}
    /\ ENV \in EnvValues
    /\ InitRun
    /\ NoTitle

\* ---------------------------------------------------------------- the file
\* pd.read_csv and the to_datetime of the date column (scraper.py:72-73).
read_csv(file) ==
    [i \in 1 .. Len(file.rows) |->
        [file.rows[i] EXCEPT !.date = to_datetime(file.rows[i].date)]]

\* df.sort_values(by='Date of Approval', ascending=False).iloc[0]: a row of the
\* latest date; the sort is not stable, so any of the rows that share it.
most_recent(df) ==
    {<<df[i].drug_name, df[i].date>> :
        i \in {k \in 1 .. Len(df) : \A j \in 1 .. Len(df) : df[j].date <= df[k].date}}

\* (a to_csv that opens the file with mode='w')
to_csv_truncate(file, drug_df) ==
    [exists |-> TRUE,
     rows |-> <<[drug_df EXCEPT !.date = isoformat(drug_df.date)]>>]

\* drug_df.to_csv(csv_file, mode='a', ...): one more line at the end of the file.
to_csv(file, drug_df) ==
    [exists |-> TRUE,
     rows |-> Append(file.rows, [drug_df EXCEPT !.date = isoformat(drug_df.date)])]

\* (a start that looks for the file whatever return_df says)
reads_file_always(rd, file) == file.exists

\* scraper.py:65-71: the file is looked for, and read, only when return_df is off.
reads_file(rd, file) == ~rd /\ file.exists

\* The stop boundary a call starts with (scraper.py:71-76): the most recent
\* record of the file when it was read, else the caller's arguments.
boundary(rd, file, a) ==
    IF reads_file(rd, file) THEN most_recent(read_csv(file)) ELSE {a}

\* (a start that goes on without a key)
key_never_missing(key) == FALSE

\* The ValueError of scraper.py:85-86.
key_not_found(key) == ~key

CallerArgs ==
    {<<None, NaT>>}
    \cup {<<"Alpha", strptime(<<1, 1, utcnow_year>>)>>}

\* The callers: one that updates the file passes no boundary, one that asks for
\* the table passes none or the most recent record it holds.
ArgsOf(rd) == IF rd THEN CallerArgs ELSE {<<None, NaT>>}

\* ------------------------------------------------------------ the harvest
\* scraper.py:65-94: a call starts.
StartRun(rd, a, key_arg, key_env) ==
    /\ pc \in {"idle", "done", "raised"}
    /\ runs < MaxRuns
    /\ runs' = runs + 1
    /\ prev' = IF pc = "done" /\ ~return_df /\ args = <<None, NaT>>
                  THEN "updated" ELSE "other"
    /\ csv_before' = csv
    /\ return_df' = rd
    /\ args' = a
    /\ file_exists' = reads_file(rd, csv)
    /\ io' = IF reads_file(rd, csv) THEN {"read"} ELSE {}
    /\ \E m \in boundary(rd, csv, a) :
          /\ most_recent_drug' = m[1]
          /\ most_recent_date' = m[2]
    /\ df_to_return' = <<>>
    /\ openai_api_key' = (key_arg \/ key_env)
    /\ IF key_not_found(key_arg \/ key_env)
          THEN pc' = "raised" /\ exc' = "ValueError"
          ELSE pc' = "while" /\ exc' = ""
    /\ current_year' = utcnow_year
    /\ has_to_stop' = FALSE
    /\ all_drugs' = <<>>
    /\ fetched' = <<>>
    /\ failed' = FALSE
    /\ oracle_calls' = 0
    /\ seen' = <<>>
    /\ oracle_down' = FALSE
    /\ UNCHANGED <<source, csv>>

\* What requests.get can return for the page of year y: the page, or a failure
\* status with whatever body the server sends (with or without the list div).
Responses(y) ==
    {[status_code |-> 200, has_list |-> TRUE, drugs |-> pages[y]],
     [status_code |-> 503, has_list |-> FALSE, drugs |-> <<>>],
     [status_code |-> 503, has_list |-> TRUE, drugs |-> pages[y]]}

\* (a counter that goes down two years at a time)
year_skipped(y) == y - 2

\* scraper.py:192: current_year -= 1.
year_before(y) == y - 1

AtLoopHead == pc = "while" /\ current_year >= END_YEAR /\ ~has_to_stop

\* scraper.py:96-106: the page of current_year is fetched and parsed.
FetchYear ==
    /\ AtLoopHead
    /\ \E response \in Responses(current_year) :
          /\ response.has_list
          /\ failed' = (failed \/ response.status_code # 200)
          /\ all_drugs' = reversed(response.drugs)
    /\ fetched' = Append(fetched, current_year)
    /\ pc' = "for"
    /\ UNCHANGED <<source, csv, locals, history, current_year, has_to_stop,
                   df_to_return, io, oracle_calls, oracle_down, seen, exc>>

\* scraper.py:105: select_one finds no div.ddc-media-list and .find_all fails.
FetchYearNoList ==
    /\ AtLoopHead
    /\ \E response \in Responses(current_year) :
          /\ ~response.has_list
          /\ failed' = (failed \/ response.status_code # 200)
    /\ fetched' = Append(fetched, current_year)
    /\ pc' = "raised"
    /\ exc' = "AttributeError"
    /\ UNCHANGED <<source, csv, locals, history, current_year, has_to_stop, all_drugs,
                   df_to_return, io, oracle_calls, oracle_down, seen>>

\* scraper.py:101: requests.get itself raises (no response at all).
FetchYearRaises ==
    /\ AtLoopHead
    /\ fetched' = Append(fetched, current_year)
    /\ UNCHANGED failed
    /\ pc' = "raised"
    /\ exc' = "ConnectionError"
    /\ UNCHANGED <<source, csv, locals, history, current_year, has_to_stop, all_drugs,
                   df_to_return, io, oracle_calls, oracle_down, seen>>

InBlock == pc = "for" /\ all_drugs # <<>>

\* scraper.py:112: the drug the two prompts are about.
prompt_drug == IF all_drugs # <<>> THEN Head(all_drugs).drug_name ELSE None

\* (a stop that looks at the drug name only)
is_boundary_by_name(drug) == drug.drug_name = most_recent_drug

\* scraper.py:145: the block is the most recent record already known.
is_boundary(drug) ==
    /\ drug.date # NoLabel
    /\ drug.drug_name = most_recent_drug
    /\ strptime(drug.date) = most_recent_date

\* scraper.py:145-155, 192: the stop fires; both loops are left.
ProcessStop ==
    /\ InBlock
    /\ is_boundary(Head(all_drugs))
    /\ seen' = Append(seen, Head(all_drugs))
    /\ has_to_stop' = TRUE
    /\ all_drugs' = Tail(all_drugs)
    /\ current_year' = year_before(current_year)
    /\ pc' = "while"
    /\ UNCHANGED <<source, csv, locals, history, df_to_return, io, fetched, failed,
                   oracle_calls, oracle_down, exc>>

\* scraper.py:158-167: the drug classification raises.
ProcessDrugRaises(r1) ==
    /\ InBlock
    /\ ~is_boundary(Head(all_drugs))
    /\ make_classification(r1).raised # ""
    /\ seen' = Append(seen, Head(all_drugs))
    /\ all_drugs' = Tail(all_drugs)
    /\ oracle_calls' = oracle_calls + 1
    /\ oracle_down' = (oracle_down \/ r1.status # "parsed")
    /\ pc' = "raised"
    /\ exc' = make_classification(r1).raised
    /\ UNCHANGED <<source, csv, locals, history, current_year, has_to_stop,
                   df_to_return, io, fetched, failed>>

\* scraper.py:170-177: the disease classification raises.
ProcessDiseaseRaises(r1, r2) ==
    /\ InBlock
    /\ ~is_boundary(Head(all_drugs))
    /\ make_classification(r1).raised = ""
    /\ make_classification(r2).raised # ""
    /\ seen' = Append(seen, Head(all_drugs))
    /\ all_drugs' = Tail(all_drugs)
    /\ oracle_calls' = oracle_calls + 2
    /\ oracle_down' = (oracle_down \/ r1.status # "parsed" \/ r2.status # "parsed")
    /\ pc' = "raised"
    /\ exc' = make_classification(r2).raised
    /\ UNCHANGED <<source, csv, locals, history, current_year, has_to_stop,
                   df_to_return, io, fetched, failed>>

\* scraper.py:181: new_data has no 'Date of Approval' key.
ProcessNoDate(r1, r2) ==
    /\ InBlock
    /\ Head(all_drugs).date = NoLabel
    /\ make_classification(r1).raised = ""
    /\ make_classification(r2).raised = ""
    /\ seen' = Append(seen, Head(all_drugs))
    /\ all_drugs' = Tail(all_drugs)
    /\ oracle_calls' = oracle_calls + 2
    /\ oracle_down' = (oracle_down \/ r1.status # "parsed" \/ r2.status # "parsed")
    /\ pc' = "raised"
    /\ exc' = "KeyError"
    /\ UNCHANGED <<source, csv, locals, history, current_year, has_to_stop,
                   df_to_return, io, fetched, failed>>

\* scraper.py:108-190: a new record is labelled and written (or kept to return).
ProcessNew(r1, r2) ==
    /\ InBlock
    /\ Head(all_drugs).date # NoLabel
    /\ ~is_boundary(Head(all_drugs))
    /\ make_classification(r1).raised = ""
    /\ make_classification(r2).raised = ""
    /\ LET drug == Head(all_drugs)
           drug_df == [drug_name |-> drug.drug_name,
                       date |-> strptime(drug.date),
                       drug_type |-> make_classification(r1).value,
                       disease_type |-> make_classification(r2).value]
       IN  IF ~return_df
              THEN /\ csv' = to_csv(csv, drug_df)
                   /\ file_exists' = TRUE
                   /\ io' = io \cup {"write"}
                   /\ UNCHANGED df_to_return
              ELSE /\ df_to_return' = Append(df_to_return, drug_df)
                   /\ UNCHANGED <<csv, file_exists, io>>
    /\ seen' = Append(seen, Head(all_drugs))
    /\ all_drugs' = Tail(all_drugs)
    /\ oracle_calls' = oracle_calls + 2
    /\ oracle_down' = (oracle_down \/ r1.status # "parsed" \/ r2.status # "parsed")
    /\ UNCHANGED <<source, return_df, args, openai_api_key, most_recent_drug,
                   most_recent_date, history, current_year, has_to_stop, pc,
                   fetched, failed, exc>>

\* scraper.py:106, 192: the page is exhausted; on to the year before.
NextYear ==
    /\ pc = "for"
    /\ all_drugs = <<>>
    /\ current_year' = year_before(current_year)
    /\ pc' = "while"
    /\ UNCHANGED <<source, csv, locals, history, has_to_stop, all_drugs,
                   df_to_return, io, fetched, failed, oracle_calls, oracle_down, seen, exc>>

\* scraper.py:96, 194-200: the loop is left and the call returns.
Finish ==
    /\ pc = "while"
    /\ (current_year < END_YEAR \/ has_to_stop)
    /\ pc' = "done"
    /\ UNCHANGED <<source, csv, locals, history, current_year, has_to_stop, all_drugs,
                   df_to_return, io, fetched, failed, oracle_calls, oracle_down, seen, exc>>

Next ==
    \/ \E rd \in BOOLEAN, key_arg \in BOOLEAN, key_env \in BOOLEAN :
          \E a \in ArgsOf(rd) : StartRun(rd, a, key_arg, key_env)
    \/ FetchYear
    \/ FetchYearNoList
    \/ FetchYearRaises
    \/ ProcessStop
    \/ \E r1 \in Replies(DrugItems(prompt_drug)) : ProcessDrugRaises(r1)
    \/ \E r1 \in Replies(DrugItems(prompt_drug)), r2 \in Replies(DiseaseItems(prompt_drug)) : ProcessDiseaseRaises(r1, r2)
    \/ \E r1 \in Replies(DrugItems(prompt_drug)), r2 \in Replies(DiseaseItems(prompt_drug)) : ProcessNoDate(r1, r2)
    \/ \E r1 \in Replies(DrugItems(prompt_drug)), r2 \in Replies(DiseaseItems(prompt_drug)) : ProcessNew(r1, r2)
    \/ NextYear
    \/ Finish

Spec == Init /\ [][Next]_vars

SpecEnv == InitEnv /\ [][Next]_vars

\* The call is single-threaded and sequential: once started, its next
\* statement is always executed (every fetch and every oracle call returns or
\* raises).
Running == pc \in {"while", "for"}

\* The blocks of the archive in the order a call walks them (scraper.py:96-106).
RECURSIVE harvest_order(_, _)
harvest_order(archive, y) ==
    IF y < END_YEAR THEN <<>>
    ELSE reversed(archive[y]) \o harvest_order(archive, y - 1)

\* The row a call writes for a block (scraper.py:158-187).
RowOf(b) ==
    [drug_name |-> b.drug_name,
     date |-> isoformat(strptime(b.date)),
     drug_type |-> CHOOSE c \in DrugItems(b.drug_name) : TRUE,
     disease_type |-> CHOOSE c \in DiseaseItems(b.drug_name) : TRUE]

\* The files a first call can leave: it wrote the first k blocks of the
\* archive, all of them dated, and returned or was ended by an error.
FilesLeft(archive) ==
    LET order == harvest_order(archive, utcnow_year)
        dated == {k \in 0 .. Len(order) : \A i \in 1 .. k : order[i].date # NoLabel}
    IN  {[exists |-> k > 0, rows |-> [i \in 1 .. k |-> RowOf(order[i])]] : k \in dated}

\* The last call of a behaviour, on any archive and any file the first call
\* can have left.
InitLive ==
    /\ pages \in Archives
    /\ ENV = "local"
    /\ InitCall
    /\ runs = MaxRuns - 1
    /\ csv \in FilesLeft(pages)
    /\ csv_before = csv
    /\ NoTitle

SpecLive == InitLive /\ [][Next]_vars /\ WF_vars(Running /\ Next)

\* ------------------------------------------------- the extractor on its own
\* Any title markup, no harvest under way.
InitExtract ==
    /\ pages = [y \in Years |-> <<>>]
    /\ ENV = "local"
    /\ InitRun
    /\ drug_tag \in Tags
    /\ extracted = FALSE
    /\ generic_name = NoName

\* utils.py:51-77: extract_generic_and_admin(drug_tag) returns.
Extract ==
    /\ ~extracted
    /\ extracted' = TRUE
    /\ generic_name' = extract_generic(drug_tag)
    /\ UNCHANGED <<pages, ENV, CONFIG, drug_tag, csv, locals, history, pc,
                   current_year, has_to_stop, all_drugs, df_to_return, io, fetched,
                   failed, oracle_calls, seen, oracle_down, exc>>

NextExtract == Extract

SpecExtract == InitExtract /\ [][NextExtract]_vars

\* ------------------------------------------------------------------ claims
RowKey(r) == <<r.drug_name, r.date>>

\* The key a block has once written to the file, and once in the returned table.
DiskKey(b) == <<b.drug_name, isoformat(strptime(b.date))>>
DfKey(b) == <<b.drug_name, strptime(b.date)>>

OracleErrors == {"APIConnectionError", "OutputParserException"}
BlockErrors == OracleErrors \cup {"KeyError"}

\* The blocks this call found new, in processing order: all it took from the
\* pages but the one that fired the stop or raised.
NewOf ==
    IF has_to_stop \/ exc \in BlockErrors THEN SubSeq(seen, 1, Len(seen) - 1) ELSE seen

\* C1: no two rows of the persisted dataset share (drug_name, approval date).
C1_NoDuplicateRows ==
    \A i, j \in 1 .. Len(csv.rows) :
        RowKey(csv.rows[i]) = RowKey(csv.rows[j]) => i = j

\* C2: a file-mode call that follows a completed file-mode call appends
\* nothing: the file stays as it was and no oracle call is made; when it
\* returns, the stop has fired on the first block it processed.
C2_SecondRunAppendsNothing ==
    (~return_df /\ prev = "updated") =>
        /\ csv = csv_before
        /\ oracle_calls = 0
        /\ (pc = "done" /\ csv.exists) => (has_to_stop /\ Len(seen) = 1)

\* C3: when a file-mode call (no boundary passed) returns, every dated record
\* block of the archive is a row of the file.
C3_RunIsComplete ==
    (pc = "done" /\ ~return_df /\ args = <<None, NaT>>) =>
        \A y \in Years : \A i \in 1 .. Len(pages[y]) :
            pages[y][i].date # NoLabel =>
                \E k \in 1 .. Len(csv.rows) : RowKey(csv.rows[k]) = DiskKey(pages[y][i])

\* C4: a block with no "Date of Approval:" label is dropped and the call goes
\* on: the missing label never ends the call.
C4_NoLabelBlockIsDropped ==
    \A i \in 1 .. Len(seen) :
        seen[i].date = NoLabel => ~(pc = "raised" /\ exc = "KeyError")

\* C5: a call in which a page fetch returned a failure status never returns
\* normally.
C5_FailedFetchIsFatal == failed => pc # "done"

\* C6: the file is append-only: the rows it had when the call started are an
\* unchanged prefix, followed by the records the call found new, in processing
\* order (M + N rows).
C6_AppendOnly ==
    LET M == Len(csv_before.rows)
        N == IF return_df THEN 0 ELSE Len(NewOf)
    IN  /\ csv_before.exists => csv.exists
        /\ Len(csv.rows) = M + N
        /\ SubSeq(csv.rows, 1, M) = csv_before.rows
        /\ \A i \in 1 .. N : RowKey(csv.rows[M + i]) = DiskKey(NewOf[i])

C6_Witness ==
    /\ pc = "done" /\ ~return_df
    /\ csv_before.rows # <<>>
    /\ Len(csv.rows) > Len(csv_before.rows)

\* C7: when an oracle call fails (unreachable, or a reply that is not
\* parsable) the call raises that error, and the record is written neither to
\* the file nor to the returned table.
C7_OracleFailurePropagates ==
    oracle_down =>
        /\ pc = "raised"
        /\ exc \in OracleErrors
        /\ Len(csv.rows) + Len(df_to_return) = Len(csv_before.rows) + Len(seen) - 1

C7_Witness ==
    /\ oracle_down /\ pc = "raised"
    /\ exc = "OutputParserException"
    /\ oracle_calls = 4
    /\ Len(csv.rows) = Len(csv_before.rows) + 1

\* C8: every record of the file or of the returned table has drug_type and
\* disease_type each one token of its vocabulary, or "Other".
C8_LabelsInVocabulary ==
    /\ \A i \in 1 .. Len(csv.rows) :
          /\ csv.rows[i].drug_type \in DRUG_CATEGORIES \cup {"Other"}
          /\ csv.rows[i].disease_type \in DISEASE_CATEGORIES \cup {"Other"}
    /\ \A i \in 1 .. Len(df_to_return) :
          /\ df_to_return[i].drug_type \in DRUG_CATEGORIES \cup {"Other"}
          /\ df_to_return[i].disease_type \in DISEASE_CATEGORIES \cup {"Other"}

StartedClean ==
    /\ pc = "raised"
    /\ fetched = <<>>
    /\ oracle_calls = 0
    /\ "write" \notin io
    /\ csv = csv_before

\* C9: a call without a credential, or under an ENV that names no profile,
\* raises before any fetch, oracle call or write.
C9_ConfigErrorIsFatal ==
    (pc # "idle" /\ (~openai_api_key \/ ENV \notin Profiles)) => StartedClean

\* C9 (amended): a call without a credential raises ValueError before any
\* fetch, oracle call or write; an ENV that names no profile is no error, the
\* local profile is used.
C9_MissingKeyIsFatal ==
    /\ (pc # "idle" /\ ~openai_api_key) => (StartedClean /\ exc = "ValueError")
    /\ ENV \notin Profiles => CONFIG = "LocalConfig"

C9_Witness ==
    /\ pc = "raised" /\ exc = "ValueError"
    /\ ~openai_api_key
    /\ csv.exists

\* C10: with return_df the file is neither read nor written, the boundary is
\* the caller's arguments, and the table returned holds the records found new,
\* one row each, in processing order.
C10_ReturnModeLeavesFile ==
    return_df =>
        /\ io = {}
        /\ ~file_exists
        /\ csv = csv_before
        /\ <<most_recent_drug, most_recent_date>> = args
        /\ pc = "done" =>
              [i \in 1 .. Len(df_to_return) |-> RowKey(df_to_return[i])]
                  = [i \in 1 .. Len(NewOf) |-> DfKey(NewOf[i])]

C10_Witness ==
    /\ return_df /\ pc = "done"
    /\ csv.exists
    /\ df_to_return # <<>>
    /\ has_to_stop

\* The closing parenthesis that balances the opening one before p (d of them
\* are open at p), 0 when there is none.
RECURSIVE closing(_, _, _)
closing(t, p, d) ==
    IF p > Len(t) THEN 0
    ELSE IF t[p] = "(" THEN closing(t, p + 1, d + 1)
    ELSE IF t[p] = ")" THEN (IF d = 1 THEN p ELSE closing(t, p + 1, d - 1))
    ELSE closing(t, p + 1, d)

\* The parenthetical groups of a text, by where they open; the outermost one
\* is the leftmost, and its inner text is what stands between its parentheses.
Groups(t) == {k \in 1 .. Len(t) : t[k] = "(" /\ closing(t, k + 1, 1) # 0}
Outermost(t) == CHOOSE m \in Groups(t) : \A n \in Groups(t) : m <= n
Inner(t) == SubSeq(t, Outermost(t) + 1, closing(t, Outermost(t) + 1, 1) - 1)

\* How deep the parentheses of a text nest.
RECURSIVE nesting(_, _)
nesting(t, d) ==
    IF t = <<>> THEN d
    ELSE IF Head(t) = "(" THEN
             LET rest == nesting(Tail(t), d + 1)
             IN  IF rest > d THEN rest ELSE d
    ELSE IF Head(t) = ")" THEN
             LET rest == nesting(Tail(t), d - 1)
             IN  IF rest > d THEN rest ELSE d
    ELSE nesting(Tail(t), d)

Named(text) == [is_none |-> FALSE, text |-> text]

\* A text from its first to its last character that is no blank.
Trimmed(text) ==
    LET inked == {i \in 1 .. Len(text) : text[i] # " "}
    IN  IF inked = {} THEN <<>>
        ELSE SubSeq(text, CHOOSE i \in inked : \A j \in inked : i <= j,
                          CHOOSE i \in inked : \A j \in inked : i >= j)

\* C11: the generic name is None exactly when the markup has no parenthetical
\* group or its group is empty; a non-empty group that nests at most one level
\* gives its inner text as the generic name.
C11_GenericNameIsInnerText ==
    extracted =>
        LET t == unescape(drug_tag)
        IN  /\ generic_name.is_none <=> (Groups(t) = {} \/ Inner(t) = <<>>)
            /\ (Groups(t) # {} /\ Inner(t) # <<>> /\ nesting(Inner(t), 0) <= 1)
                   => generic_name = Named(Inner(t))

\* C11 (amended): without a parenthetical group the generic name is None; when
\* the first opening parenthesis of the unescaped markup is closed and its
\* group nests at most one level, the generic name is the group's inner text
\* without its leading and trailing blanks, None when nothing is left of it.
C11_GenericNameIsStrippedInnerText ==
    extracted =>
        LET t == unescape(drug_tag)
        IN  /\ Groups(t) = {} => generic_name = NoName
            /\ (Groups(t) # {} /\ Outermost(t) = find(t, "(", 1)
                    /\ nesting(Inner(t), 0) <= 1)
                   => generic_name = IF Trimmed(Inner(t)) = <<>> THEN NoName
                                     ELSE Named(Trimmed(Inner(t)))

C11_Witness ==
    /\ extracted
    /\ drug_tag # unescape(drug_tag)
    /\ Groups(unescape(drug_tag)) # {}
    /\ Outermost(unescape(drug_tag)) = find(unescape(drug_tag), "(", 1)
    /\ nesting(Inner(unescape(drug_tag)), 0) = 1
    /\ ~generic_name.is_none
    /\ generic_name.text # Inner(unescape(drug_tag))

\* The block has the name and the approval date of the most recent record known
\* when the call started.
Matches(b) ==
    /\ b.date # NoLabel
    /\ DfKey(b) = <<most_recent_drug, most_recent_date>>

\* C12: a block stops the harvest exactly when its name and its date both
\* match the most recent record known; it is then the last block taken, it is
\* neither classified nor written, and no page of a lower year is fetched.
\* Every block taken before it was classified twice and written.
C12_StopOnMatch ==
    /\ \A i \in 1 .. Len(seen) :
          Matches(seen[i]) <=> (has_to_stop /\ i = Len(seen))
    /\ has_to_stop =>
          /\ pc \in {"while", "done"}
          /\ oracle_calls = 2 * (Len(seen) - 1)
          /\ Len(csv.rows) + Len(df_to_return)
                 = Len(csv_before.rows) + Len(seen) - 1
          /\ fetched # <<>>
          /\ fetched[Len(fetched)] = seen[Len(seen)].date[3]

C12_Witness ==
    /\ has_to_stop /\ pc = "done"
    /\ Len(seen) = 2
    /\ seen[1].date # NoLabel
    /\ seen[1].drug_name = most_recent_drug
    /\ strptime(seen[1].date) # most_recent_date
    /\ oracle_calls = 2
    /\ fetched = <<utcnow_year>>

InFile(b) == \E k \in 1 .. Len(csv.rows) : RowKey(csv.rows[k]) = DiskKey(b)

\* C13: when the stop has fired in a call that updates the file, every dated
\* block the call leaves unprocessed (the rest of that page, and the pages of
\* all lower years) is a row of the file.
C13_StopIsSound ==
    (has_to_stop /\ ~return_df) =>
        /\ \A i \in 1 .. Len(all_drugs) :
              all_drugs[i].date # NoLabel => InFile(all_drugs[i])
        /\ \A y \in Years : \A i \in 1 .. Len(pages[y]) :
              (y < fetched[Len(fetched)] /\ pages[y][i].date # NoLabel)
                  => InFile(pages[y][i])

\* C14: while the year loop of a call is still running nothing has been
\* written to the file: it is as it was when the call started.
C14_NoWriteBeforeLoopEnd ==
    (pc = "for" \/ AtLoopHead) => (csv = csv_before /\ "write" \notin io)

\* The years fetched so far go down one by one from the current year and stay
\* at or above the floor; a block is only being processed from the page
\* fetched last, and the next page is fetched only when none is left; the
\* call returns only when the counter has passed the floor or the stop fired,
\* and without a stop only after the page of every year was fetched.
LoopOrder ==
    /\ \A i \in 1 .. Len(fetched) :
          fetched[i] = utcnow_year - (i - 1) /\ fetched[i] >= END_YEAR
    /\ pc = "for" => (fetched # <<>> /\ current_year = fetched[Len(fetched)])
    /\ \A i \in 1 .. Len(seen) :
          seen[i].date # NoLabel => seen[i].date[3] \in {fetched[k] : k \in 1 .. Len(fetched)}
    /\ AtLoopHead => all_drugs = <<>>
    /\ pc = "done" => (current_year < END_YEAR \/ has_to_stop)
    /\ (pc = "done" /\ ~has_to_stop) => fetched = [i \in 1 .. NumYears |-> utcnow_year - (i - 1)]

\* C15: the year loop terminates: a call that has started returns or raises;
\* pages are fetched for the current year, then for each year before it, once
\* each and never below the floor; every block of a page is finished before
\* the next page is fetched; the loop is left exactly when the counter has
\* passed the floor or the stop has fired.
C15_YearLoopTerminates ==
    /\ []LoopOrder
    /\ Running ~> (pc \in {"done", "raised"})

C15_Witness ==
    /\ pc = "done" /\ ~has_to_stop
    /\ fetched = <<utcnow_year, utcnow_year - 1>>
    /\ Len(seen) = 2
    /\ seen[1].date # NoLabel /\ seen[2].date # NoLabel
    /\ seen[1].date[3] = utcnow_year
    /\ seen[2].date[3] = utcnow_year - 1
    /\ oracle_calls = 4

====
